---- MODULE Spec2Model ----
(***************************************************************************)
(* Model of .build/setup-scripts/setup_julia.py: the provisioning script   *)
(* that fetches the Julia version manifest, selects the build for the      *)
(* current machine, downloads and unpacks it into a conda environment and  *)
(* links the binary into two environments.                                 *)
(*                                                                         *)
(* The state is the process (position, locals, raised exception), the      *)
(* process environment, the remote manifest and the part of the            *)
(* filesystem the script touches.                                          *)
(***************************************************************************)
EXTENDS Naturals, Sequences, FiniteSets, TLC

VARIABLES
    pc,              \* the statement the process is at; "done", "failed"
    err,             \* the uncaught exception and the step that raised it
    log,             \* the steps completed since the entry point was called
    calls,           \* calls of prepare_julia made so far
    environ,         \* os.environ: the variables that are set
    machine,         \* platform.machine()
    manifest,        \* the document served at .../bin/versions.json
    versions,        \* get_latest_julia_url: the parsed manifest
    julia_url,       \* __main__: the url returned
    julia_version,   \* __main__: the version returned
    conda_env_path,  \* prepare_julia: CONDA_DIR/envs/<conda_env_name>
    archive,         \* /tmp/julia.tar.gz
    staged,          \* versions v with a tree conda_env_path/julia-<v>
    juliaDir,        \* conda_env_path/julia
    links,           \* <env>/bin/julia of the two environments
    pkgdir,          \* whether JULIA_PKGDIR exists
    rc               \* conda_env_path/julia/etc/julia/juliarc.jl

vars == <<pc, err, log, calls, environ, machine, manifest, versions,
          julia_url, julia_version, conda_env_path,
          archive, staged, juliaDir, links, pkgdir, rc>>

procVars == <<versions, julia_url, julia_version, conda_env_path>>
hostVars == <<environ, machine, manifest>>
fsVars == <<archive, staged, juliaDir, links, pkgdir, rc>>

-----------------------------------------------------------------------------
(* Bounds of the model *)

\* longest file list of a version in the manifest
MaxFiles == 2
\* version keys of the manifest are 1.9.0 .. 1.MaxMinor.0
MaxMinor == 10
\* longest prior content (in lines) of juliarc.jl
MaxRcLines == 2
\* invocations of prepare_julia by one process
MaxCalls == 2

-----------------------------------------------------------------------------
(* Strings of the manifest: version keys and their ordering *)

RECURSIVE Digits(_)
\* str(n): the decimal digits of n, as code points ("0" is 48)
Digits(n) == IF n < 10 THEN <<48 + n>> ELSE Digits(n \div 10) \o <<48 + (n % 10)>>

RECURSIVE Render(_)
\* the key of a version as the manifest spells it: components joined by "."
\* (code point 46)
Render(v) ==
    IF Len(v) = 0 THEN <<>>
    ELSE IF Len(v) = 1 THEN Digits(v[1])
    ELSE Digits(v[1]) \o <<46>> \o Render(Tail(v))

RECURSIVE SeqLess(_, _)
\* a < b for Python sequences/strings: lexicographic, by element
SeqLess(a, b) ==
    IF Len(b) = 0 THEN FALSE
    ELSE IF Len(a) = 0 THEN TRUE
    ELSE IF a[1] # b[1] THEN a[1] < b[1]
    ELSE SeqLess(Tail(a), Tail(b))

\* a < b for two dict keys of versions.json (str < str)
KeyLess(a, b) == SeqLess(Render(a), Render(b))

\* max(d) over the keys of a dict
MaxKey(keys) == CHOOSE k \in keys : \A o \in keys : ~KeyLess(k, o)

-----------------------------------------------------------------------------
(* unify_aarch64 and get_latest_julia_url *)

Machines == {"aarch64", "arm64", "x86_64", "riscv64"}

\* the dict literal of unify_aarch64
UnifyTable ==
    [p \in {"aarch64", "arm64", "x86_64"} |->
        IF p = "arm64" THEN "aarch64" ELSE p]

\* a lookup that falls back to x86_64 instead of raising (a faulty variant)
UnifyAarch64Default(platform) ==
    IF platform \in DOMAIN UnifyTable
        THEN [ok |-> TRUE, value |-> UnifyTable[platform]]
        ELSE [ok |-> TRUE, value |-> "x86_64"]

\* unify_aarch64(platform): KeyError for a platform outside the dict
UnifyAarch64(platform) ==
    IF platform \in DOMAIN UnifyTable
        THEN [ok |-> TRUE, value |-> UnifyTable[platform]]
        ELSE [ok |-> FALSE, value |-> ""]

\* the first entry of the list whatever its triplet (a faulty variant)
MatchingAny(files, triplet) == IF Len(files) = 0 THEN 0 ELSE 1

\* index of [vf for vf in files if vf["triplet"] == triplet][0]; 0: IndexError
Matching(files, triplet) ==
    LET hits == {i \in 1..Len(files) : files[i].triplet = triplet}
    IN  IF hits = {} THEN 0 ELSE CHOOSE i \in hits : \A j \in hits : i <= j

NoUrl == <<>>
NoVersion == <<>>

Failure(exc) == [ok |-> FALSE, exc |-> exc, url |-> NoUrl, version |-> NoVersion]

\* the body of get_latest_julia_url after the manifest is parsed
LatestJuliaUrl(vs, m) ==
    LET stable_versions == {k \in DOMAIN vs : vs[k].stable}
    IN  IF stable_versions = {} THEN Failure("ValueError")
        ELSE
        LET latest_version_files == vs[MaxKey(stable_versions)].files
            arch == UnifyAarch64(m)
        IN  IF ~arch.ok THEN Failure("KeyError")
            ELSE
            LET triplet == arch.value \o "-linux-gnu"
                i == Matching(latest_version_files, triplet)
            IN  IF i = 0 THEN Failure("IndexError")
                ELSE [ok |-> TRUE, exc |-> "",
                      url |-> latest_version_files[i].url,
                      version |-> latest_version_files[i].version]

-----------------------------------------------------------------------------
(* Manifests the server may serve *)

Triplets == {"aarch64-linux-gnu", "x86_64-linux-gnu", "x86_64-apple-darwin"}

VersionKeys == {<<1, m, 0>> : m \in 9..MaxMinor}

TripletSeqs == UNION {[1..n -> Triplets] : n \in 0..MaxFiles}

\* the files of version k: the i-th has its own url and carries the key
FilesOf(k, ts) ==
    [i \in 1..Len(ts) |-> [triplet |-> ts[i], url |-> <<k, i>>, version |-> k]]

\* what a manifest says of one version: absent, listed as not stable (a
\* pre-release, published for every platform) or stable with some file list
VersionShapes ==
    {[listed |-> FALSE, stable |-> FALSE, ts |-> <<>>],
     [listed |-> TRUE, stable |-> FALSE,
      ts |-> <<"x86_64-linux-gnu", "aarch64-linux-gnu">>]}
    \cup {[listed |-> TRUE, stable |-> TRUE, ts |-> ts] : ts \in TripletSeqs}

ManifestOf(shape) ==
    [k \in {k \in VersionKeys : shape[k].listed} |->
        [stable |-> shape[k].stable, files |-> FilesOf(k, shape[k].ts)]]

AllManifests == {ManifestOf(s) : s \in [VersionKeys -> VersionShapes]}

Release == <<1, 10, 0>>

\* manifests of the installation runs: the release built for both linux
\* platforms, and the release built for x86_64 only
SampleManifests ==
    {[k \in {Release} |->
        [stable |-> TRUE, files |-> FilesOf(k, ts)]] :
        ts \in {<<"x86_64-apple-darwin", "x86_64-linux-gnu">>,
                <<"x86_64-linux-gnu", "aarch64-linux-gnu">>}}

-----------------------------------------------------------------------------
(* Process environment and paths *)

CondaDir == <<"opt", "conda">>
PkgDir == <<"opt", "julia">>

FullEnviron == [n \in {"CONDA_DIR", "JULIA_PKGDIR"} |->
                    IF n = "CONDA_DIR" THEN CondaDir ELSE PkgDir]

Environs == {[n \in s |-> FullEnviron[n]] : s \in SUBSET DOMAIN FullEnviron}

\* os.environ.get(name, default): no failure for an unset variable (a faulty variant)
EnvironGet(env, name) ==
    IF name \in DOMAIN env THEN [ok |-> TRUE, value |-> env[name]]
    ELSE [ok |-> TRUE, value |-> <<"tmp">>]

\* os.environ[name]: KeyError when the variable is unset
EnvironLookup(env, name) ==
    IF name \in DOMAIN env THEN [ok |-> TRUE, value |-> env[name]]
    ELSE [ok |-> FALSE, value |-> <<>>]

\* os.path.join on relative components
Join(a, b) == a \o b

\* the arguments of prepare_julia given by __main__
conda_env_name == "julia-env"
jupyter_env_name == "jupyter"
EnvNames == {conda_env_name, jupyter_env_name}

CondaEnvPath(conda_dir) == Join(conda_dir, <<"envs", conda_env_name>>)
JuliaEnvPath(env_path) == Join(env_path, <<"julia">>)
JuliaBinPath(env_path) == Join(JuliaEnvPath(env_path), <<"bin", "julia">>)

\* the binary of an installation made outside the environment, and the
\* binary of one that has since been removed
ElsewhereBin == <<"opt", "julia-1.8.5", "bin", "julia">>
RemovedBin == <<"opt", "julia-1.7.3", "bin", "julia">>

-----------------------------------------------------------------------------
(* The filesystem *)

OldVersion == <<1, 8, 5>>

NoFile == [present |-> FALSE, good |-> FALSE, version |-> NoVersion]
Tarball(v) == [present |-> TRUE, good |-> TRUE, version |-> v]
NotATarball == [present |-> TRUE, good |-> FALSE, version |-> NoVersion]

\* the tree at CONDA_DIR/envs/julia-env/julia: the version whose binary is at
\* bin/julia (NoVersion: none) and the versions of the julia-<v> trees in it
NoDir == [exists |-> FALSE, bin |-> NoVersion, nested |-> {}]
JuliaTree(bin, nested) == [exists |-> TRUE, bin |-> bin, nested |-> nested]

Absent == [kind |-> "absent", target |-> <<>>]
RegularFile == [kind |-> "file", target |-> <<>>]
Directory == [kind |-> "dir", target |-> <<>>]
SymlinkTo(t) == [kind |-> "symlink", target |-> t]

\* whether the path a symlink names exists
TargetExists(t, jd) ==
    \/ t = JuliaBinPath(CondaEnvPath(CondaDir)) /\ jd.exists /\ jd.bin # NoVersion
    \/ t = ElsewhereBin

\* os.path.exists(path): follows symlinks, False for a broken one
PathExists(entry, jd) ==
    \/ entry.kind \in {"file", "dir"}
    \/ entry.kind = "symlink" /\ TargetExists(entry.target, jd)

LinkOutcome(ok, exc, entry) == [ok |-> ok, exc |-> exc, entry |-> entry]

\* if os.path.exists(p): os.remove(p) / os.symlink(target, p)
ReplaceSymlink(entry, target, jd) ==
    IF PathExists(entry, jd)
    THEN IF entry.kind = "dir"
         THEN LinkOutcome(FALSE, "IsADirectoryError", entry)
         ELSE LinkOutcome(TRUE, "", SymlinkTo(target))
    ELSE IF entry.kind = "absent"
         THEN LinkOutcome(TRUE, "", SymlinkTo(target))
         ELSE LinkOutcome(FALSE, "FileExistsError", entry)

\* mv src dst, src a directory julia-<v> of the environment
MoveOutcome(v, st, jd) ==
    IF v \notin st THEN [ok |-> FALSE, staged |-> st, juliaDir |-> jd]
    ELSE IF ~jd.exists
        THEN [ok |-> TRUE, staged |-> st \ {v}, juliaDir |-> JuliaTree(v, {})]
    ELSE IF v \in jd.nested
        THEN [ok |-> FALSE, staged |-> st, juliaDir |-> jd]
    ELSE [ok |-> TRUE, staged |-> st \ {v},
          juliaDir |-> JuliaTree(jd.bin, jd.nested \cup {v})]

\* the line written to juliarc.jl
ConfigLine(env_path) ==
    [call |-> "push!(Libdl.DL_LOAD_PATH, _)", arg |-> Join(env_path, <<"lib">>)]

\* the line the image's original script wrote: CONDA_DIR/lib
FormerLine == [call |-> "push!(Libdl.DL_LOAD_PATH, _)", arg |-> Join(CondaDir, <<"lib">>)]

NoRc == [exists |-> FALSE, lines |-> <<>>]
RcFile(lines) == [exists |-> TRUE, lines |-> lines]

\* open(path, "a"): the line is added to what the file holds (a faulty variant)
AppendText(file, line) == RcFile(file.lines \o <<line>>)

\* with open(path, "w") as f: f.write(line)
WriteText(file, line) == RcFile(<<line>>)

RcLines == {ConfigLine(CondaEnvPath(CondaDir)), FormerLine}
RcContents == {NoRc} \cup
    {RcFile(l) : l \in UNION {[1..n -> RcLines] : n \in 0..MaxRcLines}}

-----------------------------------------------------------------------------
(* Initial states *)

NoErr == [step |-> "", exc |-> ""]

LinkEntries ==
    {Absent, RegularFile, Directory,
     SymlinkTo(JuliaBinPath(CondaEnvPath(CondaDir))),
     SymlinkTo(ElsewhereBin), SymlinkTo(RemovedBin)}

JuliaDirs ==
    {NoDir, JuliaTree(NoVersion, {}), JuliaTree(OldVersion, {}),
     JuliaTree(OldVersion, {Release})}

InitProcess ==
    /\ pc = "get"
    /\ err = NoErr
    /\ log = <<>>
    /\ calls = 0
    /\ versions = <<>>
    /\ julia_url = NoUrl
    /\ julia_version = NoVersion
    /\ conda_env_path = <<>>

\* an installation run on a machine in any state a previous provisioning
\* may have left
Init ==
    /\ InitProcess
    /\ environ \in Environs
    /\ machine \in Machines
    /\ manifest \in SampleManifests
    /\ archive = NoFile
    /\ staged = {}
    /\ juliaDir \in JuliaDirs
    /\ links \in [EnvNames -> LinkEntries]
    /\ pkgdir = FALSE
    /\ rc \in RcContents
    /\ (~juliaDir.exists => rc = NoRc)

\* selection from any manifest on any machine, on a clean filesystem
InitSelect ==
    /\ InitProcess
    /\ environ = FullEnviron
    /\ machine \in Machines
    /\ manifest \in AllManifests
    /\ archive = NoFile
    /\ staged = {}
    /\ juliaDir = NoDir
    /\ links = [n \in EnvNames |-> Absent]
    /\ pkgdir = FALSE
    /\ rc = NoRc

-----------------------------------------------------------------------------
(* The steps of the script *)

\* the exception is caught and the step is left to be tried again (a faulty variant)
RaiseAndRetry(step, exc) ==
    /\ pc' = pc
    /\ err' = [step |-> step, exc |-> exc]
    /\ log' = log

\* an exception nothing catches: the interpreter exits with a traceback
Raise(step, exc) ==
    /\ pc' = "failed"
    /\ err' = [step |-> step, exc |-> exc]
    /\ log' = log

\* the step returned: execution goes on with the statement that follows
Completed(step, next) ==
    /\ pc' = next
    /\ err' = err
    /\ log' = Append(log, step)

\* versions = requests.get(".../versions.json").json()
GetManifest ==
    /\ pc = "get"
    /\ \/ /\ versions' = manifest
          /\ Completed("get", "select")
       \/ /\ versions' = versions
          /\ Raise("get", "ConnectionError")
    /\ UNCHANGED <<calls, julia_url, julia_version, conda_env_path>>
    /\ UNCHANGED <<hostVars, fsVars>>

\* the rest of get_latest_julia_url and the assignment in __main__
SelectPlatform ==
    /\ pc = "select"
    /\ LET r == LatestJuliaUrl(versions, machine)
       IN  IF r.ok
           THEN /\ julia_url' = r.url
                /\ julia_version' = r.version
                /\ versions' = <<>>
                /\ Completed("select", "download")
           ELSE /\ UNCHANGED <<julia_url, julia_version, versions>>
                /\ Raise("select", r.exc)
    /\ UNCHANGED <<calls, conda_env_path, hostVars, fsVars>>

\* the tarball a url of the manifest serves holds the tree julia-<version>
Served(url) == Tarball(url[1])

\* download_julia: curl --location --output /tmp/julia.tar.gz <url>, and
\* the call of prepare_julia that follows its return.  curl runs without
\* --fail: it exits 0 with the body of an HTTP error saved as the archive
DownloadJulia ==
    /\ pc = "download"
    /\ \/ /\ archive' \in {Served(julia_url), NotATarball}
          /\ calls' = calls + 1
          /\ Completed("download", "prepare")
       \/ /\ archive' \in {archive, NotATarball}
          /\ calls' = calls
          /\ Raise("download", "CalledProcessError")
    /\ UNCHANGED <<procVars, hostVars, staged, juliaDir, links, pkgdir, rc>>

\* the extraction is left out, as it is in download_julia (a faulty variant)
EnterPrepareNoUnpack ==
    /\ pc = "prepare"
    /\ LET v == EnvironLookup(environ, "CONDA_DIR")
       IN  IF v.ok
           THEN /\ conda_env_path' = CondaEnvPath(v.value)
                /\ pc' = "rm_archive"
                /\ UNCHANGED <<err, log>>
           ELSE /\ conda_env_path' = conda_env_path
                /\ Raise("prepare", "KeyError")
    /\ UNCHANGED <<calls, versions, julia_url, julia_version, hostVars, fsVars>>

\* prepare_julia up to the paths: conda_env_path reads CONDA_DIR
EnterPrepare ==
    /\ pc = "prepare"
    /\ LET v == EnvironLookup(environ, "CONDA_DIR")
       IN  IF v.ok
           THEN /\ conda_env_path' = CondaEnvPath(v.value)
                /\ pc' = "unpack"
                /\ UNCHANGED <<err, log>>
           ELSE /\ conda_env_path' = conda_env_path
                /\ Raise("prepare", "KeyError")
    /\ UNCHANGED <<calls, versions, julia_url, julia_version, hostVars, fsVars>>

\* shutil.unpack_archive("/tmp/julia.tar.gz", conda_env_path, "gztar")
UnpackArchive ==
    /\ pc = "unpack"
    /\ IF ~archive.present
       THEN staged' = staged /\ Raise("unpack", "FileNotFoundError")
       ELSE IF ~archive.good
       THEN staged' = staged /\ Raise("unpack", "ReadError")
       ELSE \/ /\ staged' = staged \cup {archive.version}
               /\ Completed("unpack", "rm_archive")
            \/ /\ staged' = staged
               /\ Raise("unpack", "OSError")
    /\ UNCHANGED <<calls, procVars, hostVars, archive, juliaDir, links, pkgdir, rc>>

\* the archive is left in /tmp (a faulty variant)
KeepArchive ==
    /\ pc = "rm_archive"
    /\ archive' = archive
    /\ Completed("rm_archive", "mv")
    /\ UNCHANGED <<calls, procVars, hostVars, staged, juliaDir, links, pkgdir, rc>>

\* os.remove("/tmp/julia.tar.gz")
RemoveArchive ==
    /\ pc = "rm_archive"
    /\ \/ /\ archive' = NoFile
          /\ Completed("rm_archive", "mv")
       \/ /\ archive' = archive
          /\ Raise("rm_archive", "OSError")
    /\ UNCHANGED <<calls, procVars, hostVars, staged, juliaDir, links, pkgdir, rc>>

\* subprocess.check_call(["mv", conda_env_path/julia-<version>, julia_env_path])
MoveJulia ==
    /\ pc = "mv"
    /\ LET r == MoveOutcome(julia_version, staged, juliaDir)
       IN  \/ /\ r.ok
              /\ staged' = r.staged
              /\ juliaDir' = r.juliaDir
              /\ Completed("mv", "link_env")
           \/ /\ UNCHANGED <<staged, juliaDir>>
              /\ Raise("mv", "CalledProcessError")
    /\ UNCHANGED <<calls, procVars, hostVars, archive, links, pkgdir, rc>>

\* one replacement of a link: its makedirs, exists/remove and symlink
LinkStep(step, next, name) ==
    /\ pc = step
    /\ LET r == ReplaceSymlink(links[name], JuliaBinPath(conda_env_path), juliaDir)
       IN  \/ /\ r.ok
              /\ links' = [links EXCEPT ![name] = r.entry]
              /\ Completed(step, next)
           \/ /\ ~r.ok
              /\ links' = links
              /\ Raise(step, r.exc)
           \/ /\ links' = links
              /\ Raise(step, "OSError")
    /\ UNCHANGED <<calls, procVars, hostVars, archive, staged, juliaDir, pkgdir, rc>>

\* the link in the environment's own bin directory
LinkCondaEnv == LinkStep("link_env", "link_jupyter", conda_env_name)

\* the link in the jupyter environment's bin directory
LinkJupyter == LinkStep("link_jupyter", "pkgdir", jupyter_env_name)

\* os.makedirs(os.environ["JULIA_PKGDIR"], exist_ok=True)
MakePkgDir ==
    /\ pc = "pkgdir"
    /\ LET v == EnvironLookup(environ, "JULIA_PKGDIR")
       IN  IF ~v.ok
           THEN pkgdir' = pkgdir /\ Raise("pkgdir", "KeyError")
           ELSE \/ /\ pkgdir' = TRUE
                   /\ Completed("pkgdir", "config")
                \/ /\ pkgdir' = pkgdir
                   /\ Raise("pkgdir", "OSError")
    /\ UNCHANGED <<calls, procVars, hostVars, archive, staged, juliaDir, links, rc>>

\* makedirs of julia/etc/julia and the write of juliarc.jl
WriteConfig ==
    /\ pc = "config"
    /\ \/ /\ rc' = WriteText(rc, ConfigLine(conda_env_path))
          /\ Completed("config", "done")
       \/ /\ rc' \in {rc, RcFile(<<>>)}
          /\ Raise("config", "OSError")
    /\ UNCHANGED <<calls, procVars, hostVars, archive, staged, juliaDir, links, pkgdir>>

\* prepare_julia called again by the process that ran it, without a download
PrepareAgain ==
    /\ pc = "done"
    /\ calls < MaxCalls
    /\ pc' = "prepare"
    /\ calls' = calls + 1
    /\ log' = <<>>
    /\ UNCHANGED <<err, procVars, hostVars, fsVars>>

NextSelect == GetManifest \/ SelectPlatform

Next ==
    \/ GetManifest
    \/ SelectPlatform
    \/ DownloadJulia
    \/ EnterPrepare
    \/ UnpackArchive
    \/ RemoveArchive
    \/ MoveJulia
    \/ LinkCondaEnv
    \/ LinkJupyter
    \/ MakePkgDir
    \/ WriteConfig
    \/ PrepareAgain

Spec == Init /\ [][Next]_vars

SpecSelect == InitSelect /\ [][NextSelect]_vars

-----------------------------------------------------------------------------
(* Vocabulary of the properties *)

\* the steps of one run, in the order the description gives them
StepOrder ==
    <<"get", "select", "download", "unpack", "rm_archive", "mv",
      "link_env", "link_jupyter", "pkgdir", "config">>

\* the places an exception can be raised at, in program order
RaiseOrder ==
    <<"get", "select", "download", "prepare", "unpack", "rm_archive", "mv",
      "link_env", "link_jupyter", "pkgdir", "config">>

Pos(order, x) == CHOOSE i \in 1..Len(order) : order[i] = x

InLog(step) == \E i \in 1..Len(log) : log[i] = step

IsPrefix(a, b) == Len(a) <= Len(b) /\ \A i \in 1..Len(a) : a[i] = b[i]

\* the steps that write to the filesystem
ChangingSteps ==
    {"download", "unpack", "rm_archive", "mv", "link_env", "link_jupyter",
     "pkgdir", "config"}

\* the steps of prepare_julia
PrepareSteps == ChangingSteps \ {"download"}

\* the platform triplet of a machine, spelled out
ExpectedTriplet(m) ==
    CASE m = "x86_64" -> "x86_64-linux-gnu"
      [] m \in {"arm64", "aarch64"} -> "aarch64-linux-gnu"
      [] OTHER -> "unsupported"

\* a < b for versions compared component by component as numbers
NumericLess(a, b) == SeqLess(a, b)

StableKeys == {k \in DOMAIN manifest : manifest[k].stable}

ExpectedBinPath == <<"opt", "conda", "envs", "julia-env", "julia", "bin", "julia">>

ExpectedRc ==
    [exists |-> TRUE,
     lines |-> <<[call |-> "push!(Libdl.DL_LOAD_PATH, _)",
                  arg |-> <<"opt", "conda", "envs", "julia-env", "lib">>]>>]

-----------------------------------------------------------------------------
(* C1 *)

\* C1: the symlink step is idempotent: whatever the link path held before
\* (nothing, a regular file, a live symlink, a symlink whose target is gone),
\* the step succeeds and leaves a symlink to the julia binary of the
\* environment, and running it again succeeds with the same result.
C1_SymlinkStepIdempotent ==
    /\ ~(/\ pc = "failed"
         /\ err.step \in {"link_env", "link_jupyter"}
         /\ err.exc = "FileExistsError")
    /\ \A n \in EnvNames :
        InLog(IF n = conda_env_name THEN "link_env" ELSE "link_jupyter") =>
            /\ links[n] = SymlinkTo(ExpectedBinPath)
            /\ ReplaceSymlink(links[n], ExpectedBinPath, juliaDir)
                   = LinkOutcome(TRUE, "", links[n])

-----------------------------------------------------------------------------
(* C2 *)

Unset(name) == name \notin DOMAIN environ

\* C2 as stated: with CONDA_DIR or JULIA_PKGDIR unset the run fails before
\* any step that changes the filesystem has been performed.
C2_FailsBeforeAnyChange ==
    (Unset("CONDA_DIR") \/ Unset("JULIA_PKGDIR")) =>
        \A s \in ChangingSteps : ~InLog(s)

\* C2, amended: an unset variable makes the run fail at the statement that
\* reads it.  With CONDA_DIR unset no step of prepare_julia is performed
\* (the download may have been); with JULIA_PKGDIR unset the package
\* directory is not created and the config file is not written (the steps
\* before them may have been).  Either way the run never ends successfully,
\* and the failure at the reading statement is a KeyError.
C2_FailsWhereRead ==
    /\ Unset("CONDA_DIR") =>
        /\ pc \in {"get", "select", "download", "prepare", "failed"}
        /\ \A s \in PrepareSteps : ~InLog(s)
        /\ pc = "failed" /\ InLog("download") => err = [step |-> "prepare", exc |-> "KeyError"]
    /\ Unset("JULIA_PKGDIR") =>
        /\ pc \notin {"config", "done"}
        /\ ~InLog("pkgdir") /\ ~InLog("config")
        /\ ~pkgdir
        /\ pc = "failed" /\ InLog("link_jupyter") => err = [step |-> "pkgdir", exc |-> "KeyError"]

\* JULIA_PKGDIR is unset and the run has failed reading it, both links made
C2_Witness ==
    /\ Unset("JULIA_PKGDIR")
    /\ pc = "failed"
    /\ err = [step |-> "pkgdir", exc |-> "KeyError"]
    /\ InLog("link_jupyter")
    /\ links[jupyter_env_name].kind = "symlink"

-----------------------------------------------------------------------------
(* C3 *)

\* C3: when the selection succeeds, the url and version returned are those
\* of an entry of the chosen version's file list whose triplet is the one of
\* the machine (arm64 and aarch64: aarch64-linux-gnu, x86_64:
\* x86_64-linux-gnu), the first such entry of the list; no entry with
\* another triplet is returned.
C3_SelectsPlatformEntry ==
    pc = "download" =>
        /\ machine \in {"aarch64", "arm64", "x86_64"}
        /\ \E k \in StableKeys :
            LET files == manifest[k].files
            IN  \E i \in 1..Len(files) :
                /\ files[i].url = julia_url
                /\ files[i].version = julia_version
                /\ files[i].triplet = ExpectedTriplet(machine)
                /\ \A j \in 1..(i - 1) : files[j].triplet # ExpectedTriplet(machine)
                /\ \A j \in 1..Len(files) :
                       files[j].url = julia_url => files[j].triplet = ExpectedTriplet(machine)

\* on an arm64 machine the second entry of a list was selected
C3_Witness ==
    /\ pc = "download"
    /\ machine = "arm64"
    /\ julia_url[2] = 2
    /\ manifest[julia_url[1]].files[1].triplet = "x86_64-linux-gnu"

-----------------------------------------------------------------------------
(* C4 *)

\* C4: at the end of a successful run both links are symlinks to the same
\* path, and the binary at that path is the one of the version just
\* extracted.
C4_LinksToExtractedBinary ==
    pc = "done" =>
        /\ links[conda_env_name] = SymlinkTo(ExpectedBinPath)
        /\ links[jupyter_env_name] = SymlinkTo(ExpectedBinPath)
        /\ juliaDir.exists
        /\ juliaDir.bin = julia_version

-----------------------------------------------------------------------------
(* C5 *)

\* C5: once the config file has been written it holds exactly the one
\* directive naming CONDA_DIR/envs/julia-env/lib, whatever it held before,
\* and writing it again leaves the same content.
C5_ConfigSingleDirective ==
    /\ InLog("config") =>
        /\ rc = ExpectedRc
        /\ WriteText(rc, ConfigLine(conda_env_path)) = rc
    /\ pc = "config" =>
        LET once == WriteText(rc, ConfigLine(conda_env_path))
        IN  /\ once = ExpectedRc
            /\ WriteText(once, ConfigLine(conda_env_path)) = once

\* the file was written in a tree that existed before the run
C5_Witness ==
    /\ pc = "done"
    /\ InLog("config")
    /\ juliaDir.bin = OldVersion
    /\ rc = ExpectedRc

-----------------------------------------------------------------------------
(* C6 *)

\* C6: a step that fails ends the run there: the process is terminated with
\* the exception, neither the failed step nor any later one is recorded as
\* done, and from then on nothing changes (no retry, no later step, no
\* success).
C6_FailFast ==
    /\ [](err # NoErr =>
            /\ pc = "failed"
            /\ \A i \in 1..Len(log) :
                   Pos(RaiseOrder, log[i]) < Pos(RaiseOrder, err.step))
    /\ [][pc = "failed" => pc' = "failed" /\ log' = log /\ fsVars' = fsVars]_vars

\* the move failed after extraction and deletion of the archive
C6_Witness ==
    /\ pc = "failed"
    /\ err = [step |-> "mv", exc |-> "CalledProcessError"]
    /\ log = <<"get", "select", "download", "unpack", "rm_archive">>
    /\ links[conda_env_name].kind = "absent"

-----------------------------------------------------------------------------
(* C7 *)

\* C7: the version selected is marked stable and no stable version of the
\* manifest is later than it when versions are compared as numbers.
C7_LatestStable ==
    pc = "download" =>
        /\ julia_version \in StableKeys
        /\ \A o \in StableKeys : ~NumericLess(julia_version, o)

-----------------------------------------------------------------------------
(* C8 *)

\* C8: the steps done so far in the script's run are an initial part of the
\* fixed order (so each is done at most once and none before the one
\* preceding it has completed), the step being executed is the next of that
\* order, and a run that ends successfully has done all of them.
C8_StepsInOrder ==
    /\ IsPrefix(log, StepOrder)
    /\ calls <= 1 /\ pc \notin {"done", "failed"} =>
           StepOrder[Len(log) + 1] = (IF pc = "prepare" THEN "unpack" ELSE pc)
    /\ pc = "done" => log = StepOrder

\* a run that did all ten steps
C8_Witness == pc = "done" /\ calls = 1 /\ Len(log) = 10 /\ rc.exists /\ pkgdir

-----------------------------------------------------------------------------
(* C9 *)

\* the machine is not a supported one, or the version selected has no file
\* for the machine's triplet
NoPlatformEntry ==
    \/ machine \notin {"aarch64", "arm64", "x86_64"}
    \/ /\ StableKeys # {}
       /\ \A i \in 1..Len(manifest[MaxKey(StableKeys)].files) :
              manifest[MaxKey(StableKeys)].files[i].triplet # ExpectedTriplet(machine)

\* C9: on an unsupported machine, or with no entry for the platform, the run
\* aborts inside get_latest_julia_url: the download is never invoked and
\* nothing of the filesystem changes.
C9_NoPlatformAborts ==
    /\ [](NoPlatformEntry =>
            /\ pc \in {"get", "select", "failed"}
            /\ ~InLog("select")
            /\ calls = 0
            /\ pc = "failed" => err.step \in {"get", "select"}
            /\ ~archive.present /\ staged = {} /\ ~pkgdir)
    /\ [][NoPlatformEntry => fsVars' = fsVars]_vars

\* the run ended with the KeyError of unify_aarch64
C9_Witness ==
    /\ machine = "riscv64"
    /\ pc = "failed"
    /\ err = [step |-> "select", exc |-> "KeyError"]
    /\ log = <<"get">>

-----------------------------------------------------------------------------
(* C10 *)

\* C10: the archive is deleted only by the deletion step, after the
\* extraction and before the move and the links; it does not exist once that
\* step is done, in particular at the end of a successful run; and a second
\* call of prepare_julia without a download fails at the extraction
\* without completing a step or touching a link or the config file.
C10_ArchiveLifecycle ==
    /\ [](InLog("rm_archive") \/ pc = "done" => ~archive.present)
    /\ [](calls > 1 =>
            /\ pc \in {"prepare", "unpack", "failed"}
            /\ log = <<>>
            /\ pc = "failed" => err = [step |-> "unpack", exc |-> "FileNotFoundError"])
    /\ [][archive.present /\ ~archive'.present =>
            /\ pc = "rm_archive"
            /\ InLog("unpack")
            /\ ~InLog("mv") /\ ~InLog("link_env") /\ ~InLog("link_jupyter")]_vars
    /\ [][calls > 1 => links' = links /\ rc' = rc /\ juliaDir' = juliaDir]_vars

\* the second call failed at the extraction: the archive is gone
C10_Witness ==
    /\ calls = 2
    /\ pc = "failed"
    /\ err = [step |-> "unpack", exc |-> "FileNotFoundError"]
    /\ ~archive.present
    /\ rc = ExpectedRc

====
